---- MODULE Spec2Model ----
(***************************************************************************)
(* A model of SlrLib's manual-memory core: the raw allocation layer        *)
(* (Memory/Allocation.hpp), the reference-counted handle Shared<_Type>     *)
(* (Memory/SharedPointer.hpp) and the growable container                   *)
(* DynamicArray<_Type> (Containers/DynamicArray.hpp).                      *)
(*                                                                         *)
(* Addresses are block identifiers 1..MaxBlocks; 0 is nullptr.  std::malloc *)
(* hands out the lowest free block and may fail; std::realloc may fail,     *)
(* resize in place or move the block.  A freed block may be handed out      *)
(* again.  Every fallible call of the system allocator takes its outcome    *)
(* from the parameter sys.                                                  *)
(***************************************************************************)
EXTENDS Integers, Sequences, FiniteSets

\* ------------------------------------------------------------------ bounds
MaxBlocks == 2    \* blocks the system allocator can have live at once
MaxHandles == 2   \* Shared<_Type> variables of the client program
MaxVal == 2       \* element values are 1..MaxVal
MaxLen == 3       \* Add and Insert are offered while elements < MaxLen
MaxCap == 3       \* SetCapacity is offered with 0..MaxCap
MaxStored == 2    \* handles held by the container of handles
MaxCount == 3     \* a handle is copied while its object's count is below MaxCount
MaxGrowCap == 50  \* the capacities an expansion is run from are 0..MaxGrowCap
MaxPtrs == 2      \* pointer variables of a client of the allocation layer
MaxBytes == 2     \* MemAlloc and MemRealloc are offered with 0..MaxBytes bytes
MaxSinks == 2     \* SetLogger is offered while fewer than MaxSinks loggers were installed

\* --------------------------------------------------------- program constants
ElementSize == 4  \* DynamicArray::elementSize, sizeof(_Type)
PayloadSize == 4  \* sizeof(_Type) in CreateShared
CountSize == 8    \* sizeof(ReferenceCountType) in CreateShared

NULL == 0
Addr == 1..MaxBlocks
Handle == 1..MaxHandles
Ptr == 1..MaxPtrs
Val == 1..MaxVal
Payload == {42, 7}   \* the values CreateShared constructs payloads from
SysOutcome == {"fail", "same", "move"}

SUCCESS == "SUCCESS"
FAIL == "FAIL"
ERROR == "ERROR"
WARNING == "WARNING"
INFO == "INFO"

VARIABLES
    mem,          \* allocation layer: block -> [st, bytes] (bytes is the prefix word)
    fault,        \* undefined behaviour met so far (names of the events)
    obj,          \* block -> the payload and count CreateShared laid out in it
    handles,      \* the client's Shared<_Type> variables
    overwritten,  \* blocks a handle referred to when CreateShared overwrote it
    slast,        \* the last operation on handles, with what it ran
    da,           \* the DynamicArray object: buffer, elements, capacity
    slots,        \* the content of the container's buffer, slot by slot
    alast,        \* the last operation on the container, with what it ran
    hist,         \* the container's history since construction / RemoveAll
    ptrs,         \* the pointer variables of a client of the allocation layer
    requested,    \* block -> the bytes of the last successful call that produced it
    mlast,        \* the last call of the allocation layer, with what it ran
    lg            \* ExceptionImplementation::logger and the Logger objects made so far

sharedVars == <<obj, handles, overwritten, slast>>
arrayVars == <<da, slots, alast, hist>>
allocVars == <<ptrs, requested, mlast>>
vars == <<mem, fault, obj, handles, overwritten, slast, da, slots, alast, hist,
          ptrs, requested, mlast, lg>>

Min(S) == CHOOSE x \in S : \A y \in S : x <= y

LogRec(level, msg) == [level |-> level, msg |-> msg]

\* ---------------------------------------------------- ErrorHandling/Exception.hpp
\* Logger objects are numbered in the order they are constructed: 0 is the
\* DefaultLogger the static member starts with.  lg.logger is the pointer
\* ExceptionImplementation::logger, lg.made the number of the last object
\* constructed, lg.deleted how often each object was deleted, lg.to and lg.got
\* the object the last operation's records were delivered to and the records,
\* lg.stale whether a record went through a pointer to a deleted object.
\* lg.client names the layer the client program uses.
SinkId == 0..MaxSinks
NoSink == -1
Clients == {"alloc", "shared", "array"}

\* ExceptionImplementation::GetLogger()->operator()(_message, level), for each
\* record of an operation in turn.
Deliver(l, log) ==
    IF log = <<>>
    THEN [l EXCEPT !.to = NoSink, !.got = <<>>]
    ELSE [l EXCEPT !.to = l.logger, !.got = log,
                   !.stale = @ \/ l.deleted[l.logger] > 0]

\* SetLogger without the delete of the current logger.
SetLogger_NoDelete ==
    /\ lg.made < MaxSinks
    /\ lg' = [lg EXCEPT !.made = @ + 1, !.logger = lg.made + 1]
    /\ UNCHANGED <<mem, fault, obj, handles, overwritten, slast, da, slots, alast, hist,
                   ptrs, requested, mlast>>

\* SetLogger<_Logger>(): delete the current logger, construct the new one.
\* (A new-expression that throws ends the program.)
SetLogger ==
    /\ lg.made < MaxSinks
    /\ lg' = [lg EXCEPT !.deleted[lg.logger] = @ + 1,
                        !.made = @ + 1,
                        !.logger = lg.made + 1]
    /\ UNCHANGED <<mem, fault, obj, handles, overwritten, slast, da, slots, alast, hist,
                   ptrs, requested, mlast>>

\* static inline Logger* logger = new DefaultLogger();
InitLogger(client) ==
    lg = [client |-> client, logger |-> 0, made |-> 0, deleted |-> [i \in SinkId |-> 0],
          to |-> NoSink, got |-> <<>>, stale |-> FALSE]

\* ------------------------------------------------------ Memory/Allocation.hpp
FreeBlocks(m) == {a \in Addr : m[a].st = "free"}

\* std::malloc: nullptr when the system refuses or has no block left.
Malloc(m, sys) ==
    IF sys = "fail" \/ FreeBlocks(m) = {} THEN NULL ELSE Min(FreeBlocks(m))

\* MemAlloc without the check of _bytes.
MemAlloc_NoZeroCheck(m, allocation, bytes, sys) ==
    LET a == Malloc(m, sys) IN
    IF a = NULL
    THEN [status |-> FAIL, allocation |-> allocation, mem |-> m,
          log |-> <<LogRec(ERROR, "Failed to allocate memory")>>, ub |-> {}]
    ELSE [status |-> SUCCESS, allocation |-> a,
          mem |-> [m EXCEPT ![a] = [st |-> "live", bytes |-> bytes]],
          log |-> <<>>, ub |-> {}]

\* MemAlloc(_allocation, _bytes): the result carries the caller's _allocation,
\* the heap, what was logged and the undefined behaviour met.
MemAlloc(m, allocation, bytes, sys) ==
    IF bytes = 0
    THEN [status |-> FAIL, allocation |-> allocation, mem |-> m,
          log |-> <<LogRec(ERROR, "Attempted to allocate 0 bytes")>>, ub |-> {}]
    ELSE LET a == Malloc(m, sys) IN
         IF a = NULL
         THEN [status |-> FAIL, allocation |-> allocation, mem |-> m,
               log |-> <<LogRec(ERROR, "Failed to allocate memory")>>, ub |-> {}]
         ELSE [status |-> SUCCESS, allocation |-> a,
               mem |-> [m EXCEPT ![a] = [st |-> "live", bytes |-> bytes]],
               log |-> <<>>, ub |-> {}]

\* MemRealloc without the write of the new size before the allocation.
MemRealloc_KeepsSizeWord(m, allocation, bytes, sys) ==
    IF allocation = NULL
    THEN [status |-> FAIL, allocation |-> allocation, mem |-> m,
          log |-> <<LogRec(ERROR, "Cannot reallocate a nullptr")>>, ub |-> {}]
    ELSE IF ~(bytes > 0)
    THEN [status |-> FAIL, allocation |-> allocation, mem |-> m,
          log |-> <<LogRec(ERROR, "Attempted to set allocation size to 0")>>, ub |-> {}]
    ELSE IF sys = "fail"
    THEN [status |-> FAIL, allocation |-> allocation, mem |-> m,
          log |-> <<LogRec(ERROR, "Could not reallocate memory")>>, ub |-> {}]
    ELSE LET bad == IF m[allocation].st = "live" THEN {} ELSE {"realloc of a dead block"}
             to == IF sys = "move" /\ FreeBlocks(m) # {}
                   THEN Min(FreeBlocks(m)) ELSE allocation
             freed == [m EXCEPT ![allocation] = [st |-> "free", bytes |-> 0]]
         IN [status |-> SUCCESS, allocation |-> to,
             mem |-> [freed EXCEPT ![to] = [st |-> "live", bytes |-> m[allocation].bytes]],
             log |-> <<>>, ub |-> bad]

\* MemRealloc(_allocation, _bytes).  A move needs a free block; with none the
\* block is resized in place.
MemRealloc(m, allocation, bytes, sys) ==
    IF allocation = NULL
    THEN [status |-> FAIL, allocation |-> allocation, mem |-> m,
          log |-> <<LogRec(ERROR, "Cannot reallocate a nullptr")>>, ub |-> {}]
    ELSE IF ~(bytes > 0)
    THEN [status |-> FAIL, allocation |-> allocation, mem |-> m,
          log |-> <<LogRec(ERROR, "Attempted to set allocation size to 0")>>, ub |-> {}]
    ELSE IF sys = "fail"
    THEN [status |-> FAIL, allocation |-> allocation, mem |-> m,
          log |-> <<LogRec(ERROR, "Could not reallocate memory")>>, ub |-> {}]
    ELSE LET bad == IF m[allocation].st = "live" THEN {} ELSE {"realloc of a dead block"}
             to == IF sys = "move" /\ FreeBlocks(m) # {}
                   THEN Min(FreeBlocks(m)) ELSE allocation
             freed == [m EXCEPT ![allocation] = [st |-> "free", bytes |-> 0]]
         IN [status |-> SUCCESS, allocation |-> to,
             mem |-> [freed EXCEPT ![to] = [st |-> "live", bytes |-> bytes]],
             log |-> <<>>, ub |-> bad]

\* MemFree without _allocation = nullptr.
MemFree_KeepsPointer(m, allocation) ==
    IF allocation = NULL
    THEN [status |-> FAIL, allocation |-> allocation, mem |-> m,
          log |-> <<LogRec(WARNING, "Attempted to free a nullptr")>>, ub |-> {}]
    ELSE [status |-> SUCCESS, allocation |-> allocation,
          mem |-> [m EXCEPT ![allocation] = [st |-> "free", bytes |-> 0]],
          log |-> <<>>,
          ub |-> IF m[allocation].st = "live" THEN {} ELSE {"free of a dead block"}]

\* MemFree(_allocation)
MemFree(m, allocation) ==
    IF allocation = NULL
    THEN [status |-> FAIL, allocation |-> allocation, mem |-> m,
          log |-> <<LogRec(WARNING, "Attempted to free a nullptr")>>, ub |-> {}]
    ELSE [status |-> SUCCESS, allocation |-> NULL,
          mem |-> [m EXCEPT ![allocation] = [st |-> "free", bytes |-> 0]],
          log |-> <<>>,
          ub |-> IF m[allocation].st = "live" THEN {} ELSE {"free of a dead block"}]

\* MemSize(_bytes, _allocation): the prefix word.
MemSize(m, allocation) == m[allocation].bytes

\* What a call of the allocation layer on pointer variable p found and did:
\* pre and preSize are the pointer and the size of its allocation before the
\* call, bytes the argument (for MemSize the value returned in _bytes).
MLast(op, p, bytes, r) ==
    [op |-> op, p |-> p, bytes |-> bytes, status |-> r.status, pre |-> ptrs[p],
     preSize |-> IF ptrs[p] = NULL THEN 0 ELSE MemSize(mem, ptrs[p]), log |-> r.log]

\* What the call leaves in the client's variable, in the heap and in the record
\* of the sizes asked for.
CommitAlloc(p, r, asked) ==
    /\ ptrs' = [ptrs EXCEPT ![p] = r.allocation]
    /\ mem' = r.mem
    /\ fault' = fault \cup r.ub
    /\ requested' = asked
    /\ lg' = Deliver(lg, r.log)
    /\ UNCHANGED <<sharedVars, arrayVars>>

\* MemAlloc(ptrs[p], bytes)
CallMemAlloc(p, bytes, sys) ==
    LET r == MemAlloc(mem, ptrs[p], bytes, sys) IN
        /\ mlast' = MLast("MemAlloc", p, bytes, r)
        /\ CommitAlloc(p, r, IF r.status = SUCCESS
                             THEN [requested EXCEPT ![r.allocation] = bytes]
                             ELSE requested)

\* MemRealloc(ptrs[p], bytes)
CallMemRealloc(p, bytes, sys) ==
    LET r == MemRealloc(mem, ptrs[p], bytes, sys) IN
        /\ mlast' = MLast("MemRealloc", p, bytes, r)
        /\ CommitAlloc(p, r, IF r.status = SUCCESS
                             THEN [[requested EXCEPT ![ptrs[p]] = 0]
                                      EXCEPT ![r.allocation] = bytes]
                             ELSE requested)

\* MemFree(ptrs[p])
CallMemFree(p) ==
    LET r == MemFree(mem, ptrs[p]) IN
        /\ mlast' = MLast("MemFree", p, 0, r)
        /\ CommitAlloc(p, r, IF r.status = SUCCESS
                             THEN [requested EXCEPT ![ptrs[p]] = 0]
                             ELSE requested)

\* MemSize(bytes, ptrs[p]) on a pointer MemAlloc or MemRealloc produced.
CallMemSize(p) ==
    /\ ptrs[p] # NULL
    /\ mlast' = MLast("MemSize", p, MemSize(mem, ptrs[p]),
                      [status |-> SUCCESS, log |-> <<>>])
    /\ UNCHANGED <<mem, fault, ptrs, requested>>
    /\ lg' = Deliver(lg, <<>>)
    /\ UNCHANGED <<sharedVars, arrayVars>>

InitAlloc ==
    /\ ptrs = [p \in Ptr |-> NULL]
    /\ requested = [a \in Addr |-> 0]
    /\ mlast = [op |-> "none", p |-> 0, bytes |-> 0, status |-> SUCCESS, pre |-> NULL,
                preSize |-> 0, log |-> <<>>]

NextAlloc ==
    \/ \E p \in Ptr, bytes \in 0..MaxBytes, sys \in SysOutcome : CallMemAlloc(p, bytes, sys)
    \/ \E p \in Ptr, bytes \in 0..MaxBytes, sys \in SysOutcome : CallMemRealloc(p, bytes, sys)
    \/ \E p \in Ptr : CallMemFree(p)
    \/ \E p \in Ptr : CallMemSize(p)

\* --------------------------------------------------- Memory/SharedPointer.hpp
\* A Shared<_Type> variable: dead (out of scope) or live, with its two members.
NoHandle == [life |-> "dead", value |-> NULL, referenceCount |-> NULL]

\* The payload and count of a block no CreateShared laid out (or already freed).
NoObject == [st |-> "none", val |-> 0, count |-> 0]

\* Shared::IsHoldingReference
IsHoldingReference(hr) == (hr.value # NULL) /\ (hr.referenceCount # NULL)

\* GetReferenceCount zeroing _references when the handle holds nothing.
GetReferenceCount_ClearsOutput(hr, o, references) ==
    IF IsHoldingReference(hr)
    THEN [status |-> SUCCESS, references |-> o[hr.referenceCount].count, log |-> <<>>]
    ELSE [status |-> FAIL, references |-> 0,
          log |-> <<LogRec(ERROR, "Not holding a reference to any object")>>]

\* Shared::GetReferenceCount(_references): _references keeps the caller's value
\* when the handle holds nothing.
GetReferenceCount(hr, o, references) ==
    IF IsHoldingReference(hr)
    THEN [status |-> SUCCESS, references |-> o[hr.referenceCount].count, log |-> <<>>]
    ELSE [status |-> FAIL, references |-> references,
          log |-> <<LogRec(ERROR, "Not holding a reference to any object")>>]

\* Shared::operator*: the payload read through a handle.
Deref(hr, o) == o[hr.value].val

\* Shared::Shared()
DefaultCtor(hs, this) ==
    [hs EXCEPT ![this] = [life |-> "live", value |-> NULL, referenceCount |-> NULL]]

\* TakeReference leaving _other's members as they were.
TakeReference_KeepsSource(hs, this, other) ==
    [hs EXCEPT ![this] = [life |-> "live", value |-> hs[other].value,
                          referenceCount |-> hs[other].referenceCount]]

\* Shared::TakeReference(_other)
TakeReference(hs, this, other) ==
    [hs EXCEPT ![this] = [life |-> "live", value |-> hs[other].value,
                          referenceCount |-> hs[other].referenceCount],
               ![other].referenceCount = NULL,
               ![other].value = NULL]

\* NewReference without the increment of the count.
NewReference_NoIncrement(hs, o, this, other) ==
    [handles |-> [hs EXCEPT ![this] = [life |-> "live", value |-> hs[other].value,
                                       referenceCount |-> hs[other].referenceCount]],
     obj |-> o]

\* Shared::NewReference(_other): the handles and the counts afterwards.
NewReference(hs, o, this, other) ==
    LET h1 == [hs EXCEPT ![this] = [life |-> "live", value |-> hs[other].value,
                                    referenceCount |-> hs[other].referenceCount]]
    IN IF IsHoldingReference(h1[this])
       THEN [handles |-> h1,
             obj |-> [o EXCEPT ![h1[this].referenceCount].count = @ + 1]]
       ELSE [handles |-> h1, obj |-> o]

\* Shared::~Shared: the variable is dead afterwards; ev lists the payload
\* destructor and the release it ran.
SharedDtor(hs, o, m, this) ==
    LET hr == hs[this]
        gone == [hs EXCEPT ![this] = NoHandle]
    IN IF ~IsHoldingReference(hr)
       THEN [handles |-> gone, obj |-> o, mem |-> m, ev |-> <<>>, log |-> <<>>, ub |-> {}]
       ELSE LET a == hr.referenceCount
                dec == [o EXCEPT ![a].count = @ - 1]
                stale == IF m[a].st = "live" /\ o[a].st = "alive"
                         THEN {} ELSE {"count of a destroyed object written"}
            IN IF dec[a].count = 0
               THEN LET f == MemFree(m, hr.value) IN
                    [handles |-> gone,
                     obj |-> [dec EXCEPT ![a] = NoObject],
                     mem |-> f.mem,
                     ev |-> <<[k |-> "dtor", a |-> hr.value], [k |-> "free", a |-> hr.value]>>,
                     log |-> f.log \o
                             (IF f.status = SUCCESS THEN <<>>
                              ELSE <<LogRec(ERROR, "Could not free object held by shared pointer")>>),
                     ub |-> stale \cup f.ub]
               ELSE [handles |-> gone, obj |-> dec, mem |-> m, ev |-> <<>>,
                     log |-> <<>>, ub |-> stale]

\* CreateShared assigning _shared.value before it looks at MemAlloc's status.
CreateSharedOp_AssignsBeforeCheck(hs, o, m, shared, v, sys) ==
    LET r == MemAlloc(m, NULL, PayloadSize + CountSize, sys) IN
    IF r.status # SUCCESS
    THEN [status |-> FAIL, handles |-> [hs EXCEPT ![shared].value = r.allocation],
          obj |-> o, mem |-> m, ev |-> <<>>,
          log |-> r.log \o
                  <<LogRec(ERROR, "Could not allocate memory for shared pointer object")>>]
    ELSE [status |-> SUCCESS,
          handles |-> [hs EXCEPT ![shared].value = r.allocation,
                                 ![shared].referenceCount = r.allocation],
          obj |-> [o EXCEPT ![r.allocation] = [st |-> "alive", val |-> v, count |-> 1]],
          mem |-> r.mem,
          ev |-> <<[k |-> "ctor", a |-> r.allocation]>>,
          log |-> <<>>]

\* CreateShared leaving _shared.referenceCount unset.
CreateSharedOp_NoCountPointer(hs, o, m, shared, v, sys) ==
    LET r == MemAlloc(m, NULL, PayloadSize + CountSize, sys) IN
    IF r.status # SUCCESS
    THEN [status |-> FAIL, handles |-> hs, obj |-> o, mem |-> m, ev |-> <<>>,
          log |-> r.log \o
                  <<LogRec(ERROR, "Could not allocate memory for shared pointer object")>>]
    ELSE [status |-> SUCCESS,
          handles |-> [hs EXCEPT ![shared].value = r.allocation],
          obj |-> [o EXCEPT ![r.allocation] = [st |-> "alive", val |-> v, count |-> 1]],
          mem |-> r.mem,
          ev |-> <<[k |-> "ctor", a |-> r.allocation]>>,
          log |-> <<>>]

\* CreateShared(_shared, _arguments...): _shared is any live handle.
CreateSharedOp(hs, o, m, shared, v, sys) ==
    LET r == MemAlloc(m, NULL, PayloadSize + CountSize, sys) IN
    IF r.status # SUCCESS
    THEN [status |-> FAIL, handles |-> hs, obj |-> o, mem |-> m, ev |-> <<>>,
          log |-> r.log \o
                  <<LogRec(ERROR, "Could not allocate memory for shared pointer object")>>]
    ELSE [status |-> SUCCESS,
          handles |-> [hs EXCEPT ![shared].value = r.allocation,
                                 ![shared].referenceCount = r.allocation],
          obj |-> [o EXCEPT ![r.allocation] = [st |-> "alive", val |-> v, count |-> 1]],
          mem |-> r.mem,
          ev |-> <<[k |-> "ctor", a |-> r.allocation]>>,
          log |-> <<>>]

LiveHandles == {h \in Handle : handles[h].life = "live"}
DeadHandles == {h \in Handle : handles[h].life = "dead"}
Holders(a) == {h \in LiveHandles : handles[h].value = a}
PreCount(hr) == IF IsHoldingReference(hr) THEN obj[hr.referenceCount].count ELSE 0

PreVal(hr) == IF IsHoldingReference(hr) THEN Deref(hr, obj) ELSE 0

\* The record of a call: pre is the handle the call read (the source of a copy
\* or move, else the handle itself) as it was before, with its count and payload;
\* other is the source handle of a copy or move, the argument of CreateShared
\* and the value _references has after GetReferenceCount.
SLast(op, h, other, pre, status, ev, log) ==
    [op |-> op, h |-> h, other |-> other, pre |-> pre, preCount |-> PreCount(pre),
     preVal |-> PreVal(pre), status |-> status, ev |-> ev, log |-> log]

\* Shared<_Type> h;
DefaultConstruct(h) ==
    /\ h \in DeadHandles
    /\ handles' = DefaultCtor(handles, h)
    /\ slast' = SLast("Shared", h, 0, handles[h], SUCCESS, <<>>, <<>>)
    /\ UNCHANGED <<mem, fault, obj, overwritten>>
    /\ lg' = Deliver(lg, slast'.log)
    /\ UNCHANGED <<arrayVars, allocVars>>

\* Shared<_Type> h(other);
CopyConstruct(h, other) ==
    /\ h \in DeadHandles
    /\ other \in LiveHandles
    /\ PreCount(handles[other]) < MaxCount
    /\ LET r == NewReference(handles, obj, h, other) IN
           /\ handles' = r.handles
           /\ obj' = r.obj
    /\ slast' = SLast("Copy", h, other, handles[other], SUCCESS, <<>>, <<>>)
    /\ UNCHANGED <<mem, fault, overwritten>>
    /\ lg' = Deliver(lg, slast'.log)
    /\ UNCHANGED <<arrayVars, allocVars>>

\* The move constructor counting the destination as a new reference.
MoveConstruct_Increments(h, other) ==
    /\ h \in DeadHandles
    /\ other \in LiveHandles
    /\ LET r == NewReference(handles, obj, h, other) IN
           /\ handles' = [r.handles EXCEPT ![other].referenceCount = NULL,
                                           ![other].value = NULL]
           /\ obj' = r.obj
    /\ slast' = SLast("Move", h, other, handles[other], SUCCESS, <<>>, <<>>)
    /\ UNCHANGED <<mem, fault, overwritten>>
    /\ lg' = Deliver(lg, slast'.log)
    /\ UNCHANGED <<arrayVars, allocVars>>

\* Shared<_Type> h(std::move(other));
MoveConstruct(h, other) ==
    /\ h \in DeadHandles
    /\ other \in LiveHandles
    /\ handles' = TakeReference(handles, h, other)
    /\ slast' = SLast("Move", h, other, handles[other], SUCCESS, <<>>, <<>>)
    /\ UNCHANGED <<mem, fault, obj, overwritten>>
    /\ lg' = Deliver(lg, slast'.log)
    /\ UNCHANGED <<arrayVars, allocVars>>

\* h goes out of scope.
Destroy(h) ==
    /\ h \in LiveHandles
    /\ LET r == SharedDtor(handles, obj, mem, h) IN
           /\ handles' = r.handles
           /\ obj' = r.obj
           /\ mem' = r.mem
           /\ fault' = fault \cup r.ub
           /\ slast' = SLast("Destroy", h, 0, handles[h], SUCCESS, r.ev, r.log)
    /\ UNCHANGED overwritten
    /\ lg' = Deliver(lg, slast'.log)
    /\ UNCHANGED <<arrayVars, allocVars>>

\* CreateShared(h, v)
CreateShared(h, v, sys) ==
    /\ h \in LiveHandles
    /\ LET r == CreateSharedOp(handles, obj, mem, h, v, sys) IN
           /\ handles' = r.handles
           /\ obj' = r.obj
           /\ mem' = r.mem
           /\ overwritten' =
                  IF r.status = SUCCESS /\ IsHoldingReference(handles[h])
                  THEN overwritten \cup {handles[h].value} ELSE overwritten
           /\ slast' = SLast("CreateShared", h, v, handles[h], r.status, r.ev, r.log)
    /\ UNCHANGED fault
    /\ lg' = Deliver(lg, slast'.log)
    /\ UNCHANGED <<arrayVars, allocVars>>

\* size references = 0; h.GetReferenceCount(references);
CallGetReferenceCount(h) ==
    /\ h \in LiveHandles
    /\ LET r == GetReferenceCount(handles[h], obj, 0) IN
           slast' = SLast("GetReferenceCount", h, r.references, handles[h], r.status,
                          <<>>, r.log)
    /\ UNCHANGED <<mem, fault, obj, handles, overwritten>>
    /\ lg' = Deliver(lg, slast'.log)
    /\ UNCHANGED <<arrayVars, allocVars>>

InitMem == mem = [a \in Addr |-> [st |-> "free", bytes |-> 0]]

InitShared ==
    /\ obj = [a \in Addr |-> NoObject]
    /\ handles = [h \in Handle |-> NoHandle]
    /\ overwritten = {}
    /\ slast = [op |-> "none", h |-> 0, other |-> 0, pre |-> NoHandle, preCount |-> 0,
                preVal |-> 0, status |-> SUCCESS, ev |-> <<>>, log |-> <<>>]

NextShared ==
    \/ \E h \in Handle : DefaultConstruct(h)
    \/ \E h \in Handle, other \in Handle : CopyConstruct(h, other)
    \/ \E h \in Handle, other \in Handle : MoveConstruct(h, other)
    \/ \E h \in Handle : Destroy(h)
    \/ \E h \in Handle, v \in Payload, sys \in {"fail", "same"} : CreateShared(h, v, sys)
    \/ \E h \in Handle : CallGetReferenceCount(h)

\* ------------------------------------------------ Containers/DynamicArray.hpp
\* The operations below take and return a world w: the container's members
\* (buffer, elements, capacity), the content of its buffer (slots; C++ index i
\* is slots[i + 1]), the heap, and what the call ran: the element constructors
\* and destructors (ev), the log records (log), undefined behaviour (ub) and
\* the Status it returned.
RawSlot == [st |-> "raw", val |-> 0]

Logged(w, level, msg) == [w EXCEPT !.log = Append(@, LogRec(level, msg))]
Returning(w, status) == [w EXCEPT !.status = status]

\* The buffer's content after (re)allocation to n slots: realloc keeps the
\* leading bytes, new bytes are uninitialised.
Resized(sl, n) == [i \in 1..n |-> IF i <= Len(sl) THEN sl[i] ELSE RawSlot]

\* buffer[i].~_Type()
DestroyAt(w, i) ==
    IF i + 1 > Len(w.slots)
    THEN [w EXCEPT !.ub = @ \cup {"destructor past the buffer"}]
    ELSE [w EXCEPT !.slots[i + 1] = RawSlot,
                   !.ev = Append(@, [k |-> "dtor", i |-> i, from |-> i,
                                     over |-> w.slots[i + 1].st])]

\* new(&buffer[i]) _Type(_value): over records what the slot held.
CopyAt(w, i, v) ==
    IF i + 1 > Len(w.slots)
    THEN [w EXCEPT !.ub = @ \cup {"write past the buffer"}]
    ELSE [w EXCEPT !.slots[i + 1] = [st |-> "live", val |-> v],
                   !.ev = Append(@, [k |-> "copy", i |-> i, from |-> i,
                                     over |-> w.slots[i + 1].st])]

\* new(&buffer[i]) _Type(std::move(buffer[j])): buffer[j] stays constructed,
\* moved from.
MoveAt(w, i, j) ==
    IF i + 1 > Len(w.slots) \/ j + 1 > Len(w.slots)
    THEN [w EXCEPT !.ub = @ \cup {"access past the buffer"}]
    ELSE [w EXCEPT !.slots[i + 1] = [st |-> "live", val |-> w.slots[j + 1].val],
                   !.slots[j + 1].st = "moved",
                   !.ev = Append(@, [k |-> "move", i |-> i, from |-> j,
                                     over |-> w.slots[i + 1].st]),
                   !.ub = @ \cup (IF w.slots[j + 1].st = "live" THEN {}
                                  ELSE {"move from a slot holding no live element"})]

\* The release of the buffer as an entry of ev (i and from are not used).
BufferFreed == [k |-> "free", i |-> 0, from |-> 0, over |-> "buffer"]

\* DeleteAllocation without elements = 0.
DeleteAllocation_KeepsElements(w) ==
    IF w.buffer # NULL
    THEN LET r == MemFree(w.mem, w.buffer)
             w1 == [w EXCEPT !.mem = r.mem, !.buffer = r.allocation,
                             !.log = @ \o r.log, !.ub = @ \cup r.ub,
                             !.ev = IF r.status = SUCCESS THEN Append(@, BufferFreed)
                                    ELSE @]
         IN IF r.status # SUCCESS
            THEN Returning(Logged(w1, ERROR,
                                  "Could not free allocation for dynamic container"), FAIL)
            ELSE Returning([w1 EXCEPT !.buffer = NULL, !.capacity = 0, !.slots = <<>>],
                           SUCCESS)
    ELSE Returning(w, SUCCESS)

\* DynamicArray::DeleteAllocation
DeleteAllocation(w) ==
    IF w.buffer # NULL
    THEN LET r == MemFree(w.mem, w.buffer)
             w1 == [w EXCEPT !.mem = r.mem, !.buffer = r.allocation,
                             !.log = @ \o r.log, !.ub = @ \cup r.ub,
                             !.ev = IF r.status = SUCCESS THEN Append(@, BufferFreed)
                                    ELSE @]
         IN IF r.status # SUCCESS
            THEN Returning(Logged(w1, ERROR,
                                  "Could not free allocation for dynamic container"), FAIL)
            ELSE Returning([w1 EXCEPT !.buffer = NULL, !.capacity = 0, !.elements = 0,
                                      !.slots = <<>>], SUCCESS)
    ELSE Returning(w, SUCCESS)

\* SetCapacity assigning capacity before it looks at the allocation's status.
SetCapacity_EarlyCapacity(w, n, sys) ==
    IF n # w.capacity
    THEN IF n = 0
         THEN LET d == DeleteAllocation(w) IN
              IF d.status # SUCCESS
              THEN Returning(Logged(d, ERROR, "Could not deallocate buffer"), FAIL)
              ELSE Returning(d, SUCCESS)
         ELSE LET initialElementsCount == w.elements
                  r == IF w.buffer = NULL
                       THEN MemAlloc(w.mem, w.buffer, n * ElementSize, sys)
                       ELSE MemRealloc(w.mem, w.buffer, n * ElementSize, sys)
                  w1 == [w EXCEPT !.mem = r.mem, !.buffer = r.allocation,
                                  !.log = @ \o r.log, !.ub = @ \cup r.ub,
                                  !.capacity = n]
              IN IF r.status # SUCCESS
                 THEN Returning(Logged(w1, ERROR, "Could not (re)allocate buffer"), FAIL)
                 ELSE Returning(
                          [w1 EXCEPT !.slots = Resized(w.slots, n),
                                     !.elements =
                                         IF n < initialElementsCount
                                         THEN initialElementsCount - (initialElementsCount - n)
                                         ELSE @],
                          SUCCESS)
    ELSE Returning(w, SUCCESS)

\* SetCapacity leaving elements as it was when the capacity drops below it.
SetCapacity_KeepsElements(w, n, sys) ==
    IF n # w.capacity
    THEN IF n = 0
         THEN LET d == DeleteAllocation(w) IN
              IF d.status # SUCCESS
              THEN Returning(Logged(d, ERROR, "Could not deallocate buffer"), FAIL)
              ELSE Returning(d, SUCCESS)
         ELSE LET r == IF w.buffer = NULL
                       THEN MemAlloc(w.mem, w.buffer, n * ElementSize, sys)
                       ELSE MemRealloc(w.mem, w.buffer, n * ElementSize, sys)
                  w1 == [w EXCEPT !.mem = r.mem, !.buffer = r.allocation,
                                  !.log = @ \o r.log, !.ub = @ \cup r.ub]
              IN IF r.status # SUCCESS
                 THEN Returning(Logged(w1, ERROR, "Could not (re)allocate buffer"), FAIL)
                 ELSE Returning([w1 EXCEPT !.slots = Resized(w.slots, n), !.capacity = n],
                                SUCCESS)
    ELSE Returning(w, SUCCESS)

\* SetCapacity running the destructor of every element it discards.
SetCapacity_DestroysTail(w, n, sys) ==
    IF n # w.capacity
    THEN LET initialElementsCount == w.elements
             gone == IF n < initialElementsCount THEN initialElementsCount - n ELSE 0
             wd == [w EXCEPT !.ev = @ \o [j \in 1..gone |->
                                             [k |-> "dtor", i |-> n + j - 1,
                                              from |-> n + j - 1,
                                              over |-> w.slots[n + j].st]]]
         IN IF n = 0
            THEN LET d == DeleteAllocation(wd) IN
                 IF d.status # SUCCESS
                 THEN Returning(Logged(d, ERROR, "Could not deallocate buffer"), FAIL)
                 ELSE Returning(d, SUCCESS)
            ELSE LET r == IF w.buffer = NULL
                          THEN MemAlloc(w.mem, w.buffer, n * ElementSize, sys)
                          ELSE MemRealloc(w.mem, w.buffer, n * ElementSize, sys)
                     w1 == [wd EXCEPT !.mem = r.mem, !.buffer = r.allocation,
                                      !.log = @ \o r.log, !.ub = @ \cup r.ub]
                 IN IF r.status # SUCCESS
                    THEN Returning(Logged(w1, ERROR, "Could not (re)allocate buffer"), FAIL)
                    ELSE Returning(
                             [w1 EXCEPT !.slots = Resized(w.slots, n),
                                        !.capacity = n,
                                        !.elements =
                                            IF n < initialElementsCount
                                            THEN initialElementsCount - (initialElementsCount - n)
                                            ELSE @],
                             SUCCESS)
    ELSE Returning(w, SUCCESS)

\* DynamicArray::SetCapacity(_elements)
SetCapacity(w, n, sys) ==
    IF n # w.capacity
    THEN IF n = 0
         THEN LET d == DeleteAllocation(w) IN
              IF d.status # SUCCESS
              THEN Returning(Logged(d, ERROR, "Could not deallocate buffer"), FAIL)
              ELSE Returning(d, SUCCESS)
         ELSE LET initialElementsCount == w.elements
                  r == IF w.buffer = NULL
                       THEN MemAlloc(w.mem, w.buffer, n * ElementSize, sys)
                       ELSE MemRealloc(w.mem, w.buffer, n * ElementSize, sys)
                  w1 == [w EXCEPT !.mem = r.mem, !.buffer = r.allocation,
                                  !.log = @ \o r.log, !.ub = @ \cup r.ub]
              IN IF r.status # SUCCESS
                 THEN Returning(Logged(w1, ERROR, "Could not (re)allocate buffer"), FAIL)
                 ELSE Returning(
                          [w1 EXCEPT !.slots = Resized(w.slots, n),
                                     !.capacity = n,
                                     !.elements =
                                         IF n < initialElementsCount
                                         THEN initialElementsCount - (initialElementsCount - n)
                                         ELSE @],
                          SUCCESS)
    ELSE Returning(w, SUCCESS)

\* floor(log2(n)) for n >= 1, and 2^k.
RECURSIVE Log2Floor(_)
Log2Floor(n) == IF n < 2 THEN 0 ELSE 1 + Log2Floor(n \div 2)

RECURSIVE Pow2(_)
Pow2(k) == IF k = 0 THEN 1 ELSE 2 * Pow2(k - 1)

\* (size)(capacity * growthFactor).  growthFactor is the double nearest to 1.4,
\* (7 * 2^52 - 2) / (5 * 2^52), so the exact product is
\* (7 * capacity * 2^52 - 2 * capacity) / (5 * 2^52).  The multiplication rounds
\* it to 53 significant bits (to nearest, ties to even) and the cast truncates.
\* With a == (7 * capacity) \div 5: when 5 does not divide capacity the product
\* lies well inside (a, a + 1) and truncates to a; when it does, the product is
\* 2 * capacity / 5 units of 2^-52 below the integer a and lies in the binade of
\* a - 1, whose spacing is 2^k units, k == Log2Floor(a - 1): it rounds up to a
\* if that distance is at most half the spacing and stays below a otherwise.
GrowthFloor(capacity) ==
    LET a == (7 * capacity) \div 5 IN
    IF (7 * capacity) % 5 # 0 \/ capacity = 0
    THEN a
    ELSE IF 2 * capacity <= 5 * Pow2(Log2Floor(a - 1) - 1) THEN a ELSE a - 1

\* DynamicArray::ExpandCapacity
ExpandCapacity(w, sys) ==
    LET r == SetCapacity(w, GrowthFloor(w.capacity) + 1, sys) IN
    IF r.status # SUCCESS
    THEN Returning(Logged(r, ERROR, "Could not set capacity"), FAIL)
    ELSE Returning(r, SUCCESS)

\* Add without ++elements.
Add_NoIncrement(w, v, sys) ==
    LET availableCapacity == w.capacity - w.elements
        e == IF availableCapacity < 1 THEN ExpandCapacity(w, sys) ELSE Returning(w, SUCCESS)
    IN IF e.status # SUCCESS
       THEN Returning(Logged(e, ERROR, "Could not expand capacity"), FAIL)
       ELSE Returning(CopyAt(e, e.elements, v), SUCCESS)

\* Add expanding the capacity whether or not there is room.
Add_AlwaysExpands(w, v, sys) ==
    LET e == ExpandCapacity(w, sys)
    IN IF e.status # SUCCESS
       THEN Returning(Logged(e, ERROR, "Could not expand capacity"), FAIL)
       ELSE Returning([CopyAt(e, e.elements, v) EXCEPT !.elements = @ + 1], SUCCESS)

\* DynamicArray::Add(const _Type&) (Add(_Type&&) differs only in moving _value)
Add(w, v, sys) ==
    LET availableCapacity == w.capacity - w.elements
        e == IF availableCapacity < 1 THEN ExpandCapacity(w, sys) ELSE Returning(w, SUCCESS)
    IN IF e.status # SUCCESS
       THEN Returning(Logged(e, ERROR, "Could not expand capacity"), FAIL)
       ELSE Returning([CopyAt(e, e.elements, v) EXCEPT !.elements = @ + 1], SUCCESS)

\* Insert's loop: for (insertionIndex = elements; insertionIndex > _index; --insertionIndex)
RECURSIVE ShiftRight(_, _, _)
ShiftRight(w, insertionIndex, index) ==
    IF insertionIndex > index
    THEN ShiftRight(MoveAt(w, insertionIndex, insertionIndex - 1), insertionIndex - 1, index)
    ELSE w

\* The same loop run from _index + 1 upwards.
RECURSIVE ShiftRightAscending(_, _)
ShiftRightAscending(w, insertionIndex) ==
    IF insertionIndex <= w.elements
    THEN ShiftRightAscending(MoveAt(w, insertionIndex, insertionIndex - 1), insertionIndex + 1)
    ELSE w

\* Insert shifting the lowest index first.
Insert_LowestFirst(w, v, index, sys) ==
    IF ~(index <= w.elements)
    THEN Returning(Logged(w, ERROR, "Invalid index provided to insert at"), FAIL)
    ELSE IF index = w.elements
    THEN LET a == Add(w, v, sys) IN
         IF a.status # SUCCESS
         THEN Returning(Logged(a, ERROR, "Could not append element to array"), FAIL)
         ELSE Returning(a, SUCCESS)
    ELSE LET availableCapacity == w.capacity - w.elements
             e == IF availableCapacity < 1 THEN ExpandCapacity(w, sys)
                  ELSE Returning(w, SUCCESS)
         IN IF e.status # SUCCESS
            THEN Returning(Logged(e, ERROR, "Could not expand capacity"), FAIL)
            ELSE Returning([CopyAt(ShiftRightAscending(e, index + 1), index, v)
                               EXCEPT !.elements = @ + 1], SUCCESS)

\* Insert requiring _index < elements.
Insert_StrictIndex(w, v, index, sys) ==
    IF ~(index < w.elements)
    THEN Returning(Logged(w, ERROR, "Invalid index provided to insert at"), FAIL)
    ELSE IF index = w.elements
    THEN LET a == Add(w, v, sys) IN
         IF a.status # SUCCESS
         THEN Returning(Logged(a, ERROR, "Could not append element to array"), FAIL)
         ELSE Returning(a, SUCCESS)
    ELSE LET availableCapacity == w.capacity - w.elements
             e == IF availableCapacity < 1 THEN ExpandCapacity(w, sys)
                  ELSE Returning(w, SUCCESS)
         IN IF e.status # SUCCESS
            THEN Returning(Logged(e, ERROR, "Could not expand capacity"), FAIL)
            ELSE Returning([CopyAt(ShiftRight(e, e.elements, index), index, v)
                               EXCEPT !.elements = @ + 1], SUCCESS)

\* DynamicArray::Insert(_value, _index); the new element is copied from _value
\* (std::move of a const reference selects the copy constructor).
Insert(w, v, index, sys) ==
    IF ~(index <= w.elements)
    THEN Returning(Logged(w, ERROR, "Invalid index provided to insert at"), FAIL)
    ELSE IF index = w.elements
    THEN LET a == Add(w, v, sys) IN
         IF a.status # SUCCESS
         THEN Returning(Logged(a, ERROR, "Could not append element to array"), FAIL)
         ELSE Returning(a, SUCCESS)
    ELSE LET availableCapacity == w.capacity - w.elements
             e == IF availableCapacity < 1 THEN ExpandCapacity(w, sys)
                  ELSE Returning(w, SUCCESS)
         IN IF e.status # SUCCESS
            THEN Returning(Logged(e, ERROR, "Could not expand capacity"), FAIL)
            ELSE Returning([CopyAt(ShiftRight(e, e.elements, index), index, v)
                               EXCEPT !.elements = @ + 1], SUCCESS)

\* Remove's loop: for (moveIndex = _index; moveIndex < elements - 1; ++moveIndex)
RECURSIVE ShiftLeft(_, _)
ShiftLeft(w, moveIndex) ==
    IF moveIndex < w.elements - 1
    THEN ShiftLeft(MoveAt(w, moveIndex, moveIndex + 1), moveIndex + 1)
    ELSE w

\* Remove accepting _index == elements.
Remove_GuardOffByOne(w, index) ==
    IF ~(index <= w.elements)
    THEN Returning(Logged(w, ERROR, "Provided index is out-of-range"), FAIL)
    ELSE Returning([ShiftLeft(DestroyAt(w, index), index) EXCEPT !.elements = @ - 1],
                   SUCCESS)

\* Remove starting its shift one slot late.
Remove_ShiftFromNext(w, index) ==
    IF ~(index < w.elements)
    THEN Returning(Logged(w, ERROR, "Provided index is out-of-range"), FAIL)
    ELSE Returning([ShiftLeft(DestroyAt(w, index), index + 1) EXCEPT !.elements = @ - 1],
                   SUCCESS)

\* Remove returning FAIL for a bad index without the assertion's log call.
Remove_SilentFail(w, index) ==
    IF ~(index < w.elements)
    THEN Returning(w, FAIL)
    ELSE Returning([ShiftLeft(DestroyAt(w, index), index) EXCEPT !.elements = @ - 1],
                   SUCCESS)

\* Remove without the destructor call for the element at _index.
Remove_NoDestructor(w, index) ==
    IF ~(index < w.elements)
    THEN Returning(Logged(w, ERROR, "Provided index is out-of-range"), FAIL)
    ELSE Returning([ShiftLeft(w, index) EXCEPT !.elements = @ - 1], SUCCESS)

\* DynamicArray::Remove(_index)
Remove(w, index) ==
    IF ~(index < w.elements)
    THEN Returning(Logged(w, ERROR, "Provided index is out-of-range"), FAIL)
    ELSE Returning([ShiftLeft(DestroyAt(w, index), index) EXCEPT !.elements = @ - 1],
                   SUCCESS)

\* RemoveAll's loop: for (index = 0; index < elements; ++index)
RECURSIVE DestroyFrom(_, _, _)
DestroyFrom(w, index, end) ==
    IF index < end THEN DestroyFrom(DestroyAt(w, index), index + 1, end) ELSE w

\* RemoveAll stopping before the last element.
RemoveAll_SkipsLast(w) ==
    Returning([DestroyFrom(w, 0, w.elements - 1) EXCEPT !.elements = 0], SUCCESS)

\* RemoveAll without elements = 0.
RemoveAll_KeepsCount(w) ==
    Returning(DestroyFrom(w, 0, w.elements), SUCCESS)

\* DynamicArray::RemoveAll
RemoveAll(w) ==
    Returning([DestroyFrom(w, 0, w.elements) EXCEPT !.elements = 0], SUCCESS)

\* DynamicArray::FitCapacityToElements: SetCapacity's status is dropped.
FitCapacityToElements(w, sys) ==
    Returning(SetCapacity(w, w.elements, sys), SUCCESS)

\* The destructor releasing the buffer before it removes the elements.
Destructor_ReleasesFirst(w) ==
    LET d == DeleteAllocation(w)
        d1 == IF d.status = SUCCESS THEN d
              ELSE Logged(d, ERROR, "Could not deallocate buffer")
        r == RemoveAll(d1)
    IN IF r.status = SUCCESS THEN r
       ELSE Logged(r, ERROR, "Could not remove all elements")

\* ~DynamicArray without the call of DeleteAllocation.
Destructor_KeepsAllocation(w) ==
    LET r == RemoveAll(w)
    IN IF r.status = SUCCESS THEN r
       ELSE Logged(r, ERROR, "Could not remove all elements")

\* DynamicArray::~DynamicArray
Destructor(w) ==
    LET r == RemoveAll(w)
        r1 == IF r.status = SUCCESS THEN r
              ELSE Logged(r, ERROR, "Could not remove all elements")
        d == DeleteAllocation(r1)
    IN IF d.status = SUCCESS THEN d
       ELSE Logged(d, ERROR, "Could not deallocate buffer")

\* DynamicArray::Contains: _doesContain is the flag it hands back; the loop
\* reads buffer[index] for index in [0, elements) until one equals _value.
Contains(w, v) ==
    [w |-> Returning(w, SUCCESS),
     _doesContain |-> \E index \in 0..(w.elements - 1) :
                         /\ index + 1 <= Len(w.slots)
                         /\ w.slots[index + 1].val = v]

\* DynamicArray::GetSize, DynamicArray::GetCapacity
GetSize(w) == w.elements
GetCapacity(w) == w.capacity

\* The elements read at indices [0, GetSize()), in order.
Elements(w) ==
    [i \in 1..w.elements |-> IF i <= Len(w.slots) THEN w.slots[i].val ELSE 0]

\* ------------------------------------------------------- the client's calls
\* The world the next call starts from.
W == [buffer |-> da.buffer, elements |-> da.elements, capacity |-> da.capacity,
      slots |-> slots, mem |-> mem, ev |-> <<>>, log |-> <<>>, ub |-> {},
      status |-> SUCCESS]

\* A freshly constructed container over heap m (DynamicArray() = default).
Fresh(m) == [buffer |-> NULL, elements |-> 0, capacity |-> 0, slots |-> <<>>,
             mem |-> m, ev |-> <<>>, log |-> <<>>, ub |-> {}, status |-> SUCCESS]

Pre == [buffer |-> da.buffer, elements |-> da.elements, capacity |-> da.capacity,
        slots |-> slots, mem |-> mem]

\* The call's result becomes the state; alast keeps the call, where it started
\* and whether only successful Adds and Removes came before it (plain).
Commit(w, life, op, v, index) ==
    /\ da' = [life |-> life, buffer |-> w.buffer, elements |-> w.elements,
              capacity |-> w.capacity]
    /\ slots' = w.slots
    /\ mem' = w.mem
    /\ fault' = fault \cup w.ub
    /\ alast' = [op |-> op, v |-> v, index |-> index, status |-> w.status,
                 pre |-> Pre, plain |-> hist.plain, ev |-> w.ev, log |-> w.log]
    /\ lg' = Deliver(lg, w.log)
    /\ UNCHANGED <<sharedVars, allocVars>>

\* hist.mode is "fresh" while only Add was called since construction and
\* "cleared" while only Add was called since RemoveAll, adds are the values of
\* the Adds that succeeded since and allOk says that all of them did; plain says
\* that only Add and Remove were called since construction, all with SUCCESS.
NoHist == [mode |-> "other", adds |-> <<>>, allOk |-> TRUE, plain |-> FALSE]

\* DynamicArray<_Type> array;
Construct ==
    /\ da.life = "dead"
    /\ Commit(Fresh(mem), "live", "DynamicArray", 0, 0)
    /\ hist' = [mode |-> "fresh", adds |-> <<>>, allOk |-> TRUE, plain |-> TRUE]

\* array goes out of scope.
Destruct ==
    /\ da.life = "live"
    /\ Commit(Destructor(W), "dead", "~DynamicArray", 0, 0)
    /\ hist' = NoHist

\* array.Add(v)
CallAdd(v, sys) ==
    /\ da.life = "live"
    /\ da.elements < MaxLen
    /\ LET r == Add(W, v, sys) IN
           /\ Commit(r, "live", "Add", v, da.elements)
           /\ hist' = LET h == [hist EXCEPT !.plain = @ /\ r.status = SUCCESS] IN
                      IF hist.mode = "other" THEN h
                      ELSE IF r.status = SUCCESS
                      THEN [h EXCEPT !.adds = Append(@, v)]
                      ELSE [h EXCEPT !.allOk = FALSE]

\* array.Insert(v, index)
CallInsert(v, index, sys) ==
    /\ da.life = "live"
    /\ da.elements < MaxLen
    /\ Commit(Insert(W, v, index, sys), "live", "Insert", v, index)
    /\ hist' = NoHist

\* array.Remove(index)
CallRemove(index) ==
    /\ da.life = "live"
    /\ LET r == Remove(W, index) IN
           /\ Commit(r, "live", "Remove", 0, index)
           /\ hist' = [NoHist EXCEPT !.plain = hist.plain /\ r.status = SUCCESS]

\* array.RemoveAll()
CallRemoveAll ==
    /\ da.life = "live"
    /\ Commit(RemoveAll(W), "live", "RemoveAll", 0, 0)
    /\ hist' = [mode |-> "cleared", adds |-> <<>>, allOk |-> TRUE, plain |-> FALSE]

\* array.Contains(doesContain, v); alast.index keeps doesContain as 1 or 0.
CallContains(v) ==
    /\ da.life = "live"
    /\ LET r == Contains(W, v) IN
           Commit(r.w, "live", "Contains", v, IF r._doesContain THEN 1 ELSE 0)
    /\ hist' = NoHist

\* array.SetCapacity(n)
CallSetCapacity(n, sys) ==
    /\ da.life = "live"
    /\ Commit(SetCapacity(W, n, sys), "live", "SetCapacity", 0, n)
    /\ hist' = NoHist

\* array.FitCapacityToElements()
CallFitCapacityToElements(sys) ==
    /\ da.life = "live"
    /\ Commit(FitCapacityToElements(W, sys), "live", "FitCapacityToElements", 0, 0)
    /\ hist' = NoHist

InitArray ==
    /\ da = [life |-> "live", buffer |-> NULL, elements |-> 0, capacity |-> 0]
    /\ slots = <<>>
    /\ alast = [op |-> "DynamicArray", v |-> 0, index |-> 0,
                status |-> SUCCESS,
                pre |-> [buffer |-> NULL, elements |-> 0, capacity |-> 0,
                         slots |-> <<>>, mem |-> [a \in Addr |-> [st |-> "free", bytes |-> 0]]],
                plain |-> TRUE, ev |-> <<>>, log |-> <<>>]
    /\ hist = [mode |-> "fresh", adds |-> <<>>, allOk |-> TRUE, plain |-> TRUE]

NextArray ==
    \/ Construct
    \/ Destruct
    \/ \E v \in Val, sys \in SysOutcome : CallAdd(v, sys)
    \/ \E v \in Val, index \in 0..MaxLen, sys \in SysOutcome : CallInsert(v, index, sys)
    \/ \E index \in 0..MaxLen : CallRemove(index)
    \/ CallRemoveAll
    \/ \E v \in Val : CallContains(v)
    \/ \E n \in 0..MaxCap, sys \in SysOutcome : CallSetCapacity(n, sys)
    \/ \E sys \in SysOutcome : CallFitCapacityToElements(sys)

\* array.Add(v) on a container that is full.
CallAddFull(v, sys) ==
    /\ da.life = "live"
    /\ da.elements = da.capacity
    /\ Commit(Add(W, v, sys), "live", "Add", v, da.elements)
    /\ hist' = NoHist

\* A container after SetCapacity(c) and c calls of Add(1), none refused: every
\* slot of its buffer holds an element.
InitFull ==
    \E c \in 0..MaxGrowCap :
        /\ da = [life |-> "live", buffer |-> IF c = 0 THEN NULL ELSE 1,
                 elements |-> c, capacity |-> c]
        /\ slots = [i \in 1..c |-> [st |-> "live", val |-> 1]]
        /\ mem = [a \in Addr |-> IF a = 1 /\ c > 0
                                 THEN [st |-> "live", bytes |-> c * ElementSize]
                                 ELSE [st |-> "free", bytes |-> 0]]
        /\ alast = [op |-> "none", v |-> 0, index |-> 0, status |-> SUCCESS,
                    pre |-> [buffer |-> da.buffer, elements |-> c, capacity |-> c,
                             slots |-> slots, mem |-> mem],
                    plain |-> FALSE, ev |-> <<>>, log |-> <<>>]
        /\ hist = NoHist

NextGrowth == \E v \in Val, sys \in SysOutcome : CallAddFull(v, sys)

\* ---------------------------------------------------------- specifications
Init == InitMem /\ fault = {} /\ InitShared /\ InitArray /\ InitAlloc /\ InitLogger("any")

\* A client that uses the allocation layer only.
SpecAlloc == Init /\ [][NextAlloc]_vars

\* A client that uses handles only.
SpecShared == Init /\ [][NextShared]_vars

\* A client that uses one container only.
SpecArray == Init /\ [][NextArray]_vars

\* A client that installs loggers and uses one of the three layers: the
\* allocation layer through one pointer variable, handles it creates and
\* destroys, or a container of equal elements whose buffer the system resizes
\* in place.
InitLogging ==
    /\ InitMem /\ fault = {} /\ InitShared /\ InitArray /\ InitAlloc
    /\ \E client \in Clients : InitLogger(client)

NextLogging ==
    \/ SetLogger
    \/ \E bytes \in {0, 1}, sys \in SysOutcome :
           lg.client = "alloc" /\ CallMemAlloc(1, bytes, sys)
    \/ \E bytes \in {0, 1}, sys \in SysOutcome :
           lg.client = "alloc" /\ CallMemRealloc(1, bytes, sys)
    \/ lg.client = "alloc" /\ CallMemFree(1)
    \/ \E h \in Handle : lg.client = "shared" /\ DefaultConstruct(h)
    \/ \E h \in Handle : lg.client = "shared" /\ Destroy(h)
    \/ \E h \in Handle, sys \in {"fail", "same"} :
           lg.client = "shared" /\ CreateShared(h, 42, sys)
    \/ \E h \in Handle : lg.client = "shared" /\ CallGetReferenceCount(h)
    \/ \E sys \in {"fail", "same"} : lg.client = "array" /\ CallAdd(1, sys)
    \/ \E index \in 0..MaxLen, sys \in {"fail", "same"} :
           lg.client = "array" /\ CallInsert(1, index, sys)
    \/ \E index \in 0..MaxLen : lg.client = "array" /\ CallRemove(index)
    \/ lg.client = "array" /\ CallRemoveAll
    \/ \E n \in 0..MaxCap, sys \in {"fail", "same"} :
           lg.client = "array" /\ CallSetCapacity(n, sys)
    \/ \E sys \in {"fail", "same"} : lg.client = "array" /\ CallFitCapacityToElements(sys)

SpecLogging == InitLogging /\ [][NextLogging]_vars

\* A client that adds one element to a full container of any capacity up to
\* MaxGrowCap.
InitGrowth == fault = {} /\ InitShared /\ InitFull /\ InitAlloc /\ InitLogger("any")
SpecGrowth == InitGrowth /\ [][NextGrowth]_vars

\* ----------------------------------------------- DynamicArray<Shared<_Type>>
\* A container whose elements are handles. slots[i + 1].val is the object the
\* handle in buffer[i] refers to (NULL for a handle that refers to none). The
\* container's code is the same; ev lists the element constructors and
\* destructors it called, and each of them is Shared's: the copy constructor
\* (NewReference), the move constructor (TakeReference) and ~Shared.

\* The handle variables of the program together with the handles in the
\* buffer: buffer[i] is variable ElementKey(i).
ElementKey(i) == MaxHandles + 1 + i

WithElements(hs, sl, n) ==
    [key \in Handle \cup {ElementKey(i) : i \in 0..(n - 1)} |->
        IF key \in Handle THEN hs[key]
        ELSE LET i == key - MaxHandles IN
             IF i <= Len(sl) /\ sl[i].st # "raw"
             THEN [life |-> "live", value |-> sl[i].val, referenceCount |-> sl[i].val]
             ELSE NoHandle]

\* The element constructors and destructors of ev from the n-th on, run on the
\* handles hs, the objects o and the heap m. _value is the handle variable
\* handed to Add or Insert, taken when it was handed over as an rvalue.
RECURSIVE RunElements(_, _, _, _, _)
RunElements(ev, n, s, _value, taken) ==
    IF n > Len(ev) THEN s
    ELSE LET e == ev[n] IN
         IF e.k = "copy"
         THEN IF taken
              THEN RunElements(ev, n + 1,
                       [s EXCEPT !.handles = TakeReference(@, ElementKey(e.i), _value)],
                       _value, taken)
              ELSE LET r == NewReference(s.handles, s.obj, ElementKey(e.i), _value) IN
                   RunElements(ev, n + 1,
                       [s EXCEPT !.handles = r.handles, !.obj = r.obj], _value, taken)
         ELSE IF e.k = "move"
         THEN RunElements(ev, n + 1,
                  [s EXCEPT !.handles = TakeReference(@, ElementKey(e.i), ElementKey(e.from))],
                  _value, taken)
         ELSE IF e.k = "dtor"
         THEN LET r == SharedDtor(s.handles, s.obj, s.mem, ElementKey(e.i)) IN
              RunElements(ev, n + 1,
                  [handles |-> r.handles, obj |-> r.obj, mem |-> r.mem,
                   log |-> s.log \o r.log, ub |-> s.ub \cup r.ub], _value, taken)
         ELSE RunElements(ev, n + 1, s, _value, taken)

\* alast is, for this client, the record of its last call, on the container or
\* on a handle variable: the call, the handle variable it named, its index
\* argument and its status.
Called(op, h, index, status) == [op |-> op, v |-> h, index |-> index, status |-> status]

\* The result w of a call on the container of handles becomes the state.
CommitElements(w, life, op, _value, taken, index) ==
    LET n == IF Len(slots) > Len(w.slots) THEN Len(slots) ELSE Len(w.slots)
        s == RunElements(w.ev, 1,
                 [handles |-> WithElements(handles, slots, n), obj |-> obj,
                  mem |-> w.mem, log |-> w.log, ub |-> w.ub], _value, taken)
    IN /\ da' = [life |-> life, buffer |-> w.buffer, elements |-> w.elements,
                 capacity |-> w.capacity]
       /\ slots' = [i \in 1..Len(w.slots) |->
                       [st |-> w.slots[i].st, val |-> s.handles[ElementKey(i - 1)].value]]
       /\ handles' = [h \in Handle |-> s.handles[h]]
       /\ obj' = s.obj
       /\ mem' = s.mem
       /\ fault' = fault \cup s.ub
       /\ alast' = Called(op, _value, index, w.status)
       /\ lg' = Deliver(lg, s.log)
       /\ UNCHANGED <<hist, overwritten, slast, allocVars>>

\* What a call on handle variable h leaves: r has the handles, the objects
\* and the heap.
CommitOwner(r, op, h, status, log, ub) ==
    /\ handles' = r.handles
    /\ obj' = r.obj
    /\ mem' = r.mem
    /\ fault' = fault \cup ub
    /\ alast' = Called(op, h, 0, status)
    /\ lg' = Deliver(lg, log)
    /\ UNCHANGED <<da, slots, hist, overwritten, slast, allocVars>>

\* Shared<_Type> h;
OwnerDefault(h) ==
    /\ h \in DeadHandles
    /\ CommitOwner([handles |-> DefaultCtor(handles, h), obj |-> obj, mem |-> mem],
                   "Shared", h, SUCCESS, <<>>, {})

\* Shared<_Type> h(other);
OwnerCopy(h, other) ==
    /\ h \in DeadHandles
    /\ other \in LiveHandles
    /\ LET r == NewReference(handles, obj, h, other) IN
           CommitOwner([handles |-> r.handles, obj |-> r.obj, mem |-> mem],
                       "Shared(copy)", h, SUCCESS, <<>>, {})

\* h goes out of scope.
OwnerDestroy(h) ==
    /\ h \in LiveHandles
    /\ LET r == SharedDtor(handles, obj, mem, h) IN
           CommitOwner(r, "~Shared", h, SUCCESS, r.log, r.ub)

\* CreateShared(h, v) on a handle variable that refers to no object.
OwnerCreate(h, v, sys) ==
    /\ h \in LiveHandles
    /\ ~IsHoldingReference(handles[h])
    /\ LET r == CreateSharedOp(handles, obj, mem, h, v, sys) IN
           CommitOwner(r, "CreateShared", h, r.status, r.log, {})

\* DynamicArray<Shared<_Type>> array;
ConstructSharedArray ==
    /\ da.life = "dead"
    /\ CommitElements(Fresh(mem), "live", "DynamicArray", 0, FALSE, 0)

\* array.Add(h): Add(const _Type&) copies the handle.
AddShared(h, sys) ==
    /\ da.life = "live"
    /\ da.elements < MaxStored
    /\ h \in LiveHandles
    /\ CommitElements(Add(W, handles[h].value, sys), "live", "Add", h, FALSE, da.elements)

\* array.Add(std::move(h)): Add(_Type&&) moves the handle.
AddSharedMoved(h, sys) ==
    /\ da.life = "live"
    /\ da.elements < MaxStored
    /\ h \in LiveHandles
    /\ CommitElements(Add(W, handles[h].value, sys), "live", "Add(move)", h, TRUE,
                      da.elements)

\* array.Insert(h, index): std::move(_value) of a const reference copies.
InsertShared(h, index, sys) ==
    /\ da.life = "live"
    /\ da.elements < MaxStored
    /\ h \in LiveHandles
    /\ CommitElements(Insert(W, handles[h].value, index, sys), "live", "Insert", h,
                      FALSE, index)

\* array.Remove(index)
RemoveShared(index) ==
    /\ da.life = "live"
    /\ CommitElements(Remove(W, index), "live", "Remove", 0, FALSE, index)

\* array.RemoveAll()
RemoveAllShared ==
    /\ da.life = "live"
    /\ CommitElements(RemoveAll(W), "live", "RemoveAll", 0, FALSE, 0)

\* array goes out of scope.
DestructShared ==
    /\ da.life = "live"
    /\ CommitElements(Destructor(W), "dead", "~DynamicArray", 0, FALSE, 0)

\* A client with handle variables and one container of handles.
NextSharedArray ==
    \/ \E h \in Handle : OwnerDefault(h)
    \/ \E h \in Handle, other \in Handle : OwnerCopy(h, other)
    \/ \E h \in Handle : OwnerDestroy(h)
    \/ \E h \in Handle, sys \in {"fail", "same"} : OwnerCreate(h, 42, sys)
    \/ ConstructSharedArray
    \/ DestructShared
    \/ \E h \in Handle, sys \in {"fail", "same"} : AddShared(h, sys)
    \/ \E h \in Handle : AddSharedMoved(h, "same")
    \/ \E h \in Handle, index \in 0..MaxStored :
           index <= da.elements + 1 /\ InsertShared(h, index, "same")
    \/ \E index \in 0..MaxStored : index <= da.elements /\ RemoveShared(index)
    \/ RemoveAllShared

SpecSharedArray == Init /\ [][NextSharedArray]_vars

\* ------------------------------------------------------------ handle claims
\* C1: between operations, the count GetReferenceCount returns for an object
\* equals the number of live handles that refer to the object.
C1_CountEqualsLiveHandles ==
    \A h \in LiveHandles :
        IsHoldingReference(handles[h]) =>
            GetReferenceCount(handles[h], obj, 0).references
                = Cardinality(Holders(handles[h].value))

\* C2: for an object whose handles are only copied, moved and destroyed, the
\* payload destructor and the release of the allocation run exactly once, in
\* the destruction that takes the count to 0, which is the destruction of the
\* last handle referring to it; while a handle refers to the object it is alive
\* and reads the value it had.
C2_DestroyedOnceAtLastHandle ==
    /\ fault = {}
    /\ \A h \in LiveHandles :
           IsHoldingReference(handles[h]) =>
               /\ obj[handles[h].value].st = "alive"
               /\ mem[handles[h].value].st = "live"
    /\ \A a \in Addr :
           a \notin overwritten =>
               /\ (obj[a].st = "alive") <=> (Holders(a) # {})
               /\ (mem[a].st = "live") <=> (Holders(a) # {})
    /\ (slast.op = "Destroy" /\ IsHoldingReference(slast.pre) /\ slast.preCount = 1) =>
           /\ slast.ev = <<[k |-> "dtor", a |-> slast.pre.value],
                           [k |-> "free", a |-> slast.pre.value]>>
           /\ obj[slast.pre.value].st = "none"
           /\ mem[slast.pre.value].st = "free"
    /\ (slast.op = "Destroy" /\ IsHoldingReference(slast.pre) /\ slast.preCount > 1) =>
           /\ slast.ev = <<>>
           /\ obj[slast.pre.value].st = "alive"
           /\ obj[slast.pre.value].val = slast.preVal
           /\ obj[slast.pre.value].count = slast.preCount - 1
    /\ (slast.op # "Destroy" \/ ~IsHoldingReference(slast.pre)) =>
           \A n \in 1..Len(slast.ev) : slast.ev[n].k = "ctor"

\* The last of two handles to a never-overwritten object was just destroyed.
C2_Witness ==
    /\ slast.op = "Destroy"
    /\ slast.preCount = 1
    /\ slast.preVal = 42
    /\ Len(slast.ev) = 2
    /\ overwritten = {}
    /\ LiveHandles = {}

\* --------------------------------------------------------- container claims
\* The world the last call started from.
PreW == [buffer |-> alast.pre.buffer, elements |-> alast.pre.elements,
         capacity |-> alast.pre.capacity, slots |-> alast.pre.slots,
         mem |-> alast.pre.mem, ev |-> <<>>, log |-> <<>>, ub |-> {},
         status |-> SUCCESS]

\* The last call left the members, the buffer's content and the heap alone and
\* constructed and destroyed nothing.
Untouched ==
    /\ da.buffer = alast.pre.buffer
    /\ da.elements = alast.pre.elements
    /\ da.capacity = alast.pre.capacity
    /\ slots = alast.pre.slots
    /\ mem = alast.pre.mem
    /\ alast.ev = <<>>

\* The allocation layer logged that std::malloc or std::realloc refused.
SystemRefused(log) ==
    \E n \in 1..Len(log) :
        log[n].msg \in {"Failed to allocate memory", "Could not reallocate memory"}

\* What the public accessors show of a world.
Observed(w) == [status |-> w.status, size |-> GetSize(w), capacity |-> GetCapacity(w),
                elements |-> Elements(w)]

\* The heap of a program that has allocated nothing.
EmptyHeap == [a \in Addr |-> [st |-> "free", bytes |-> 0]]

\* Add called with each value of adds in turn on w, no allocation refused.
RECURSIVE AddEach(_, _)
AddEach(w, adds) ==
    IF adds = <<>> THEN w ELSE AddEach(Add(w, Head(adds), "same"), Tail(adds))

\* C3: after only Add calls on a freshly constructed container, N of which
\* returned SUCCESS, GetSize is N, GetCapacity is at least N and the elements
\* are the added values in the order they were added.
C3_AddsGiveSizeCapacityOrder ==
    hist.mode = "fresh" =>
        /\ GetSize(W) = Len(hist.adds)
        /\ GetCapacity(W) >= Len(hist.adds)
        /\ Elements(W) = hist.adds

\* MaxLen Adds succeeded on a fresh container and another was refused.
C3_Witness ==
    /\ hist.mode = "fresh"
    /\ Len(hist.adds) = MaxLen
    /\ ~hist.allOk
    /\ \E i, j \in 1..Len(hist.adds) : hist.adds[i] # hist.adds[j]

C5_RemoveClosesGap ==
    /\ (alast.op = "Remove" /\ alast.index < alast.pre.elements) =>
           LET i == alast.index
               n == alast.pre.elements
               old == Elements(PreW)
               new == Elements(W)
           IN /\ alast.status = SUCCESS
              /\ da.elements = n - 1
              /\ \A j \in 1..i : new[j] = old[j]
              /\ \A j \in (i + 1)..(n - 1) : new[j] = old[j + 1]
    /\ (alast.op = "Remove" /\ alast.status = SUCCESS) =>
           alast.index < alast.pre.elements
    /\ LET w == Remove(Insert(Add(Add(Fresh(EmptyHeap), 5, "same"), 7, "same"),
                              6, 1, "same"), 0)
       IN w.status = SUCCESS /\ Elements(w) = <<6, 7>> /\ GetSize(w) = 2

\* Remove(0) succeeded on three elements, not all equal.
C5_Witness ==
    /\ alast.op = "Remove"
    /\ alast.status = SUCCESS
    /\ alast.index = 0
    /\ alast.pre.elements = 3
    /\ alast.pre.slots[2].val # alast.pre.slots[3].val

\* C6: from any reachable container state, Insert(v, size()) and Add(v) give
\* the same status, length, capacity and elements.
C6_InsertAtSizeIsAdd ==
    da.life = "live" =>
        \A v \in Val, sys \in SysOutcome :
            Observed(Insert(W, v, GetSize(W), sys)) = Observed(Add(W, v, sys))

\* Insert(v, size()) was called on a full, non-empty container and succeeded,
\* leaving what Add(v) leaves.
C6_Witness ==
    /\ alast.op = "Insert"
    /\ alast.index = alast.pre.elements
    /\ alast.pre.elements = alast.pre.capacity
    /\ alast.pre.elements >= 1
    /\ alast.status = SUCCESS
    /\ Elements(W) = Elements(Add(PreW, alast.v, "same"))

C8_RefusedExpansionLeavesContainer ==
    (alast.op \in {"Add", "Insert"} /\ SystemRefused(alast.log)) =>
        /\ alast.status = FAIL
        /\ Untouched
        /\ da.buffer # NULL =>
               /\ mem[da.buffer].st = "live"
               /\ MemSize(mem, da.buffer) = da.capacity * ElementSize

\* An Insert before the last element of a full container was refused its
\* expansion.
C8_Witness ==
    /\ alast.op = "Insert"
    /\ alast.index < alast.pre.elements
    /\ alast.pre.elements = alast.pre.capacity
    /\ SystemRefused(alast.log)
    /\ alast.status = FAIL

C10_SameAsFreshWithCapacity ==
    /\ alast.op = "RemoveAll" => GetSize(W) = 0
    /\ (hist.mode = "cleared" /\ hist.allOk) =>
           Observed(W) = Observed(AddEach(Fresh(EmptyHeap), hist.adds))

\* C10 amended: after RemoveAll the size is 0 and the capacity is what it was;
\* an Add that follows fails only if the system refuses its expansion, and
\* after any Add calls that follow the size and the elements are those of a
\* fresh container given the Add calls that succeeded.
C10_SameAsFreshButCapacity ==
    /\ alast.op = "RemoveAll" =>
           GetSize(W) = 0 /\ GetCapacity(W) = alast.pre.capacity
    /\ hist.mode = "cleared" =>
           LET f == AddEach(Fresh(EmptyHeap), hist.adds) IN
               /\ f.status = SUCCESS
               /\ GetSize(W) = GetSize(f)
               /\ Elements(W) = Elements(f)
               /\ (alast.op = "Add" /\ alast.status = FAIL) => SystemRefused(alast.log)

\* Two Adds followed a RemoveAll and the capacity is not the fresh container's.
C10_Witness ==
    /\ hist.mode = "cleared"
    /\ hist.allOk
    /\ Len(hist.adds) = 2
    /\ GetCapacity(W) # GetCapacity(AddEach(Fresh(EmptyHeap), hist.adds))

\* C11: every expansion sets the capacity to floor(capacity * 1.4) + 1, which is
\* greater than the capacity it had, 0 included; from capacity 0 the first three
\* expansions give 1, 2 and 3.
C11_ExpandsToFloorPlusOne ==
    /\ (/\ alast.op = "Add"
        /\ alast.pre.elements = alast.pre.capacity
        /\ alast.status = SUCCESS) =>
           /\ da.capacity = (alast.pre.capacity * 14) \div 10 + 1
           /\ da.capacity > alast.pre.capacity
    /\ LET w1 == ExpandCapacity(Fresh(EmptyHeap), "same")
           w2 == ExpandCapacity(w1, "same")
           w3 == ExpandCapacity(w2, "same")
       IN <<w1.capacity, w2.capacity, w3.capacity>> = <<1, 2, 3>>

\* The last call came after nothing but successful Adds and Removes on the
\* container since its construction.
AfterAddsAndRemoves == alast.op = "FitCapacityToElements" /\ alast.plain

\* C12: after successful Adds and Removes only, FitCapacityToElements leaves
\* capacity equal to size and the elements as they were, and with size 0 it
\* releases the allocation: the container has no buffer and capacity 0.
C12_FitLeavesCapacityEqualSize ==
    AfterAddsAndRemoves =>
        /\ GetSize(W) = alast.pre.elements
        /\ GetCapacity(W) = GetSize(W)
        /\ Elements(W) = Elements(PreW)
        /\ GetSize(W) = 0 =>
               /\ da.buffer = NULL
               /\ \A a \in Addr : mem[a].st = "free"

\* min(a, b)
Least(a, b) == IF a <= b THEN a ELSE b

C14_DestructorDestroysThenReleases ==
    alast.op = "~DynamicArray" =>
        LET n == alast.pre.elements
            held == alast.pre.buffer # NULL
        IN /\ Len(alast.ev) = n + (IF held THEN 1 ELSE 0)
           /\ \A k \in 1..n :
                  alast.ev[k] = [k |-> "dtor", i |-> k - 1, from |-> k - 1, over |-> "live"]
           /\ held =>
                  /\ alast.ev[n + 1] = BufferFreed
                  /\ mem = [alast.pre.mem EXCEPT ![alast.pre.buffer] =
                                                     [st |-> "free", bytes |-> 0]]
           /\ ~held => mem = alast.pre.mem
           /\ da.buffer = NULL
           /\ alast.log = <<>>
           /\ fault = {}

\* A container of MaxLen elements was destroyed.
C14_Witness ==
    /\ alast.op = "~DynamicArray"
    /\ alast.pre.elements = MaxLen
    /\ Len(alast.ev) = MaxLen + 1
    /\ da.life = "dead"

\* C15: copying a handle that refers to an object gives a handle to the same
\* object and adds exactly 1 to its count; copying an empty handle gives an
\* empty handle and changes no count; no other operation increases the count
\* of an object that exists.
C15_OnlyCopyAddsOne ==
    [][/\ slast'.op = "Copy" =>
              LET src == handles[slast'.other]
                  new == handles'[slast'.h]
              IN /\ new.life = "live"
                 /\ \A g \in Handle \ {slast'.h} : handles'[g] = handles[g]
                 /\ IF IsHoldingReference(src)
                    THEN /\ new.value = src.value
                         /\ new.referenceCount = src.referenceCount
                         /\ obj' = [obj EXCEPT ![src.referenceCount].count = @ + 1]
                    ELSE /\ ~IsHoldingReference(new)
                         /\ obj' = obj
       /\ \A a \in Addr :
              (obj[a].st = "alive" /\ obj'[a].st = "alive"
                   /\ obj'[a].count > obj[a].count) =>
                  /\ slast'.op = "Copy"
                  /\ handles[slast'.other].referenceCount = a
                  /\ obj'[a].count = obj[a].count + 1]_vars

\* A handle to an object with one reference was copied: two handles, count 2.
C15_Witness ==
    /\ slast.op = "Copy"
    /\ IsHoldingReference(slast.pre)
    /\ slast.preCount = 1
    /\ handles[slast.h].value = handles[slast.other].value
    /\ GetReferenceCount(handles[slast.h], obj, 0).references = 2

\* C16: a move makes the destination refer to what the source referred to,
\* makes the source empty and changes no count; the destruction of the
\* moved-from source that follows runs nothing and changes no count.
C16_MoveTransfers ==
    [][/\ slast'.op = "Move" =>
              LET src == handles[slast'.other] IN
                  /\ handles' = [handles EXCEPT
                                     ![slast'.h] = [life |-> "live", value |-> src.value,
                                                    referenceCount |-> src.referenceCount],
                                     ![slast'.other] = [life |-> "live", value |-> NULL,
                                                        referenceCount |-> NULL]]
                  /\ ~IsHoldingReference(handles'[slast'.other])
                  /\ obj' = obj
                  /\ mem' = mem
       /\ (slast.op = "Move" /\ slast'.op = "Destroy" /\ slast'.h = slast.other) =>
              /\ obj' = obj
              /\ mem' = mem
              /\ slast'.ev = <<>>
              /\ slast'.log = <<>>
              /\ fault' = fault]_vars

\* The only handle to an object was moved: the destination holds the object,
\* the source is empty and the count is still 1.
C16_Witness ==
    /\ slast.op = "Move"
    /\ IsHoldingReference(slast.pre)
    /\ slast.preCount = 1
    /\ handles[slast.h].value = slast.pre.value
    /\ ~IsHoldingReference(handles[slast.other])
    /\ obj[slast.pre.value].count = 1
    /\ overwritten = {}

\* C17: IsHoldingReference is false for a default-constructed handle and for a
\* handle that was moved from, true right after a successful CreateShared on
\* the handle, and in every reachable state true exactly when the handle refers
\* to an object.
C17_HoldingIffRefers ==
    /\ slast.op = "Shared" => ~IsHoldingReference(handles[slast.h])
    /\ slast.op = "Move" => ~IsHoldingReference(handles[slast.other])
    /\ (slast.op = "CreateShared" /\ slast.status = SUCCESS) =>
           IsHoldingReference(handles[slast.h])
    /\ \A h \in LiveHandles :
           /\ (handles[h].value # NULL) <=> (handles[h].referenceCount # NULL)
           /\ IsHoldingReference(handles[h]) <=>
                  /\ handles[h].value # NULL
                  /\ obj[handles[h].value].st = "alive"
                  /\ mem[handles[h].value].st = "live"

\* A handle that held an object was moved from and holds nothing, while the
\* destination holds the object.
C17_Witness ==
    /\ slast.op = "Move"
    /\ IsHoldingReference(slast.pre)
    /\ ~IsHoldingReference(handles[slast.other])
    /\ IsHoldingReference(handles[slast.h])
    /\ obj[handles[slast.h].value].st = "alive"

\* C18: GetReferenceCount on an empty handle returns FAIL, logs an error and
\* leaves the output value as it was; on a handle for which IsHoldingReference
\* is true it returns SUCCESS with a count of at least 1.
C18_CountOrFail ==
    /\ slast.op = "GetReferenceCount" =>
           IF IsHoldingReference(handles[slast.h])
           THEN /\ slast.status = SUCCESS
                /\ slast.other >= 1
                /\ slast.other = obj[handles[slast.h].referenceCount].count
                /\ slast.log = <<>>
           ELSE /\ slast.status = FAIL
                /\ slast.other = 0
                /\ slast.log = <<LogRec(ERROR, "Not holding a reference to any object")>>
    /\ \A h \in LiveHandles, n \in 0..(MaxCount + 1) :
           LET r == GetReferenceCount(handles[h], obj, n) IN
               IF IsHoldingReference(handles[h])
               THEN r.status = SUCCESS /\ r.references >= 1
               ELSE /\ r.status = FAIL
                    /\ r.references = n
                    /\ \E k \in 1..Len(r.log) : r.log[k].level = ERROR

\* GetReferenceCount failed on an empty handle while another handle holds an
\* object.
C18_Witness ==
    /\ slast.op = "GetReferenceCount"
    /\ slast.status = FAIL
    /\ ~IsHoldingReference(handles[slast.h])
    /\ \E g \in LiveHandles : IsHoldingReference(handles[g])

\* C19: a successful CreateShared obtains exactly one allocation, of the size of
\* payload plus count, constructs the payload from the argument in it and
\* leaves the handle referring to it with count 1; when the allocation fails
\* CreateShared returns FAIL, constructs nothing and leaves the handle as it was.
C19_CreateSharedOneAllocation ==
    [][slast'.op = "CreateShared" =>
           LET h == slast'.h IN
               /\ SystemRefused(slast'.log) => slast'.status = FAIL
               /\ IF slast'.status = SUCCESS
                  THEN /\ \E a \in Addr :
                              /\ mem[a].st = "free"
                              /\ mem' = [mem EXCEPT ![a] = [st |-> "live",
                                                            bytes |-> PayloadSize + CountSize]]
                              /\ obj' = [obj EXCEPT ![a] = [st |-> "alive",
                                                            val |-> slast'.other,
                                                            count |-> 1]]
                              /\ handles' = [handles EXCEPT ![h].value = a,
                                                            ![h].referenceCount = a]
                              /\ slast'.ev = <<[k |-> "ctor", a |-> a]>>
                       /\ IsHoldingReference(handles'[h])
                       /\ GetReferenceCount(handles'[h], obj', 0).references = 1
                       /\ Deref(handles'[h], obj') = slast'.other
                  ELSE /\ slast'.status = FAIL
                       /\ SystemRefused(slast'.log)
                       /\ slast'.ev = <<>>
                       /\ handles' = handles
                       /\ obj' = obj
                       /\ mem' = mem]_vars

\* CreateShared was refused its allocation on a handle that holds an object,
\* and the handle still holds it.
C19_Witness ==
    /\ slast.op = "CreateShared"
    /\ slast.status = FAIL
    /\ IsHoldingReference(slast.pre)
    /\ handles[slast.h] = slast.pre
    /\ obj[slast.pre.value].val = slast.preVal
    /\ obj[slast.pre.value].count = slast.preCount

\* ------------------------------------------------- allocation layer claims
\* C20: for every live address MemAlloc or MemRealloc produced, MemSize returns
\* the byte count of the last successful MemAlloc or MemRealloc that produced
\* it: n after MemAlloc(n), m after a successful MemRealloc to m, the old size
\* after a failed MemRealloc.
C20_MemSizeIsLastRequest ==
    /\ \A a \in Addr : mem[a].st = "live" => MemSize(mem, a) = requested[a]
    /\ (mlast.op \in {"MemAlloc", "MemRealloc"} /\ mlast.status = SUCCESS) =>
           /\ ptrs[mlast.p] # NULL
           /\ mem[ptrs[mlast.p]].st = "live"
           /\ MemSize(mem, ptrs[mlast.p]) = mlast.bytes
    /\ (mlast.op = "MemRealloc" /\ mlast.status = FAIL /\ mlast.pre # NULL) =>
           /\ ptrs[mlast.p] = mlast.pre
           /\ mem[mlast.pre].st = "live"
           /\ MemSize(mem, mlast.pre) = mlast.preSize
    /\ mlast.op = "MemSize" => mlast.bytes = requested[ptrs[mlast.p]]

\* MemRealloc moved an allocation to another address and another size.
C20_Witness ==
    /\ mlast.op = "MemRealloc"
    /\ mlast.status = SUCCESS
    /\ mlast.pre # NULL
    /\ ptrs[mlast.p] # mlast.pre
    /\ mlast.bytes # mlast.preSize
    /\ MemSize(mem, ptrs[mlast.p]) = mlast.bytes

\* C21: requests the allocation layer cannot satisfy fail without side effects:
\* MemAlloc with 0 bytes returns FAIL and creates no block; MemRealloc with a
\* null address, with 0 bytes or refused by the system returns FAIL and leaves
\* the caller's address, the block and its recorded size as they were, the
\* block still live.
C21_FailedRequestsChangeNothing ==
    [][/\ (mlast'.op = "MemAlloc" /\ mlast'.bytes = 0) => mlast'.status = FAIL
       /\ (/\ mlast'.op = "MemRealloc"
           /\ \/ ptrs[mlast'.p] = NULL
              \/ mlast'.bytes = 0
              \/ SystemRefused(mlast'.log)) => mlast'.status = FAIL
       /\ (mlast'.op \in {"MemAlloc", "MemRealloc"} /\ mlast'.status = FAIL) =>
              /\ mem' = mem
              /\ ptrs' = ptrs
              /\ fault' = fault
              /\ ptrs[mlast'.p] # NULL =>
                     /\ mem'[ptrs'[mlast'.p]].st = "live"
                     /\ MemSize(mem', ptrs'[mlast'.p]) = MemSize(mem, ptrs[mlast'.p])]_vars

\* The system refused a MemRealloc of a live allocation to another size; the
\* pointer and the size are as before.
C21_Witness ==
    /\ mlast.op = "MemRealloc"
    /\ mlast.status = FAIL
    /\ mlast.pre # NULL
    /\ mlast.bytes > 0
    /\ mlast.bytes # mlast.preSize
    /\ ptrs[mlast.p] = mlast.pre
    /\ MemSize(mem, mlast.pre) = mlast.preSize

\* C22: MemFree on a live address frees that block and sets the caller's
\* address to null; MemFree on a null address frees nothing, changes no state
\* and logs one record, a WARNING and not an ERROR.
C22_FreeReleasesOrWarns ==
    [][mlast'.op = "MemFree" =>
           LET p == mlast'.p IN
               IF ptrs[p] # NULL
               THEN /\ mlast'.status = SUCCESS
                    /\ mem' = [mem EXCEPT ![ptrs[p]] = [st |-> "free", bytes |-> 0]]
                    /\ ptrs' = [ptrs EXCEPT ![p] = NULL]
                    /\ mlast'.log = <<>>
                    /\ fault' = fault
               ELSE /\ mem' = mem
                    /\ ptrs' = ptrs
                    /\ fault' = fault
                    /\ Len(mlast'.log) = 1
                    /\ mlast'.log[1].level = WARNING
                    /\ mlast'.log[1].level # ERROR]_vars

\* MemFree was called on a null pointer while another allocation is live.
C22_Witness ==
    /\ mlast.op = "MemFree"
    /\ mlast.pre = NULL
    /\ ptrs[mlast.p] = NULL
    /\ Len(mlast.log) = 1
    /\ \E a \in Addr : mem[a].st = "live"

\* C25: after any sequence of Add, Insert, Remove, RemoveAll, SetCapacity and
\* FitCapacityToElements calls, successful or failed, 0 <= length <= capacity.
C25_LengthWithinCapacity ==
    /\ 0 <= GetSize(W)
    /\ GetSize(W) <= GetCapacity(W)
    /\ Len(slots) = GetCapacity(W)

\* SetCapacity cut a container below its length: length and capacity are equal
\* and not 0.
C25_Witness ==
    /\ alast.op = "SetCapacity"
    /\ alast.status = SUCCESS
    /\ alast.index < alast.pre.elements
    /\ GetSize(W) = GetCapacity(W)
    /\ GetSize(W) >= 1

\* C26: after every container operation each slot of [0, length) holds one live
\* element and each slot of [length, capacity) holds no object that was
\* constructed and not destroyed; Insert and Remove construct elements only
\* over slots whose previous occupant was destroyed, and Remove leaves no
\* undestroyed object in the vacated last slot.
C26_SlotsLiveOrRaw ==
    /\ \A i \in 1..Len(slots) :
           slots[i].st = (IF i <= da.elements THEN "live" ELSE "raw")
    /\ alast.op \in {"Insert", "Remove"} =>
           \A n \in 1..Len(alast.ev) :
               alast.ev[n].k \in {"copy", "move"} => alast.ev[n].over = "raw"
    /\ (alast.op = "Remove" /\ alast.status = SUCCESS) =>
           slots[alast.pre.elements].st = "raw"

\* The destructor calls of the last operation.
Destroyed == {n \in 1..Len(alast.ev) : alast.ev[n].k = "dtor"}

\* C27: a SetCapacity(n) with n < length, n = 0 included, that succeeds takes
\* the elements of [n, length) out of the live range and runs the destructor
\* of none of them; and no operation, the container's destructor included,
\* ever runs a destructor on anything but an element that is in the live range
\* when the operation starts, so the discarded ones are never destroyed.
C27_DiscardedNeverDestroyed ==
    /\ (/\ alast.op = "SetCapacity"
        /\ alast.status = SUCCESS
        /\ alast.index < alast.pre.elements)
           => /\ Destroyed = {}
              /\ GetSize(W) = alast.index
              /\ slots = SubSeq(alast.pre.slots, 1, alast.index)
    /\ \A n \in Destroyed :
           /\ alast.ev[n].i < alast.pre.elements
           /\ alast.ev[n].over = "live"
           /\ alast.op \in {"Remove", "RemoveAll", "~DynamicArray"}
    /\ \A i \in 1..Len(slots) :
           (i > Len(alast.pre.slots) /\ slots[i].st # "raw") =>
               \E n \in 1..Len(alast.ev) :
                   alast.ev[n].k \in {"copy", "move"} /\ alast.ev[n].i = i - 1

C27_Witness ==
    /\ alast.op = "SetCapacity"
    /\ alast.status = SUCCESS
    /\ 0 < alast.index
    /\ alast.index + 1 < alast.pre.elements
    /\ \A i \in 1..alast.pre.elements : alast.pre.slots[i].st = "live"

\* C28: an Add or Insert made while length < capacity leaves the capacity as it
\* was and allocates or resizes nothing (the buffer and the heap are the ones
\* it started with), and Remove, RemoveAll and Contains never change the
\* capacity.
C28_GrowsOnlyWhenFull ==
    /\ (alast.op \in {"Add", "Insert"} /\ alast.pre.elements < alast.pre.capacity)
           => /\ GetCapacity(W) = alast.pre.capacity
              /\ da.buffer = alast.pre.buffer
              /\ mem = alast.pre.mem
    /\ alast.op \in {"Remove", "RemoveAll", "Contains"}
           => GetCapacity(W) = alast.pre.capacity

C28_Witness ==
    /\ alast.op = "Insert"
    /\ alast.status = SUCCESS
    /\ alast.index < alast.pre.elements
    /\ alast.pre.elements < alast.pre.capacity
    /\ GetSize(W) = alast.pre.elements + 1

\* C29: whatever CreateShared, copy, move and destroy operations were made,
\* CreateShared on a handle that already refers to an object included, no
\* object's count is above the number of live handles that refer to it, and
\* once every handle is destroyed no object is left alive and no allocation is
\* left unreleased.
C29_NothingLeaked ==
    /\ \A a \in Addr :
           obj[a].st = "alive" => obj[a].count <= Cardinality(Holders(a))
    /\ LiveHandles = {} =>
           \A a \in Addr : obj[a].st # "alive" /\ mem[a].st = "free"

\* C30: when FitCapacityToElements or SetCapacity returns SUCCESS the capacity
\* is the requested one (the length for FitCapacityToElements, the argument for
\* SetCapacity), so a resize the allocation layer refused is never reported as
\* SUCCESS.
C30_SuccessMeansResized ==
    /\ (alast.op = "SetCapacity" /\ alast.status = SUCCESS)
           => GetCapacity(W) = alast.index
    /\ (alast.op = "FitCapacityToElements" /\ alast.status = SUCCESS)
           => /\ GetCapacity(W) = GetSize(W)
              /\ ~SystemRefused(alast.log)

\* The blocks of the heap that are allocated.
LiveBlocks == {a \in Addr : mem[a].st = "live"}

\* C31: in every state of the container, the buffer is null iff the capacity is
\* 0; a buffer that is not null is the one allocated block of the heap and
\* MemSize gives capacity times the element size for it; no block is released
\* or resized after its release; and once the container is destroyed no block
\* is left allocated.
C31_OneAllocationOfCapacity ==
    /\ (da.buffer = NULL) <=> (GetCapacity(W) = 0)
    /\ da.buffer # NULL =>
           /\ LiveBlocks = {da.buffer}
           /\ MemSize(mem, da.buffer) = GetCapacity(W) * ElementSize
    /\ da.buffer = NULL => LiveBlocks = {}
    /\ fault \cap {"free of a dead block", "realloc of a dead block"} = {}
    /\ da.life = "dead" => da.buffer = NULL /\ LiveBlocks = {}

C31_Witness ==
    /\ alast.op = "~DynamicArray"
    /\ alast.pre.buffer # NULL
    /\ alast.pre.capacity > alast.pre.elements
    /\ alast.pre.elements > 0
    /\ alast.ev[Len(alast.ev)] = BufferFreed
    /\ da.life = "dead"

\* The slots of the live range whose handle refers to object a.
ElementsReferring(a) == {i \in 1..da.elements : slots[i].val = a}

\* C32: with handles stored in a container through Add, Insert, Remove,
\* RemoveAll and the container's destruction, the count of every object is the
\* number of live handle variables referring to it plus the number of slots of
\* [0, length) referring to it, an object is alive while any of them refers to
\* it, nothing is destroyed or released twice, and once the container and
\* every handle variable are destroyed no object is alive and every
\* allocation is released.
C32_CountIsHoldersPlusElements ==
    /\ \A a \in Addr :
           /\ obj[a].st = "alive" =>
                  obj[a].count = Cardinality(Holders(a)) + Cardinality(ElementsReferring(a))
           /\ (Holders(a) # {} \/ ElementsReferring(a) # {}) =>
                  obj[a].st = "alive" /\ mem[a].st = "live"
    /\ \A i \in 1..da.elements : slots[i].st = "live"
    /\ fault = {}
    /\ (da.life = "dead" /\ LiveHandles = {}) =>
           \A a \in Addr : obj[a].st # "alive" /\ mem[a].st = "free"

C32_Witness ==
    /\ alast.op = "Remove"
    /\ alast.status = SUCCESS
    /\ alast.index = 0
    /\ GetSize(W) = 1
    /\ \E a \in Addr :
           /\ obj[a].st = "alive"
           /\ obj[a].count = 3
           /\ Cardinality(Holders(a)) = 2
           /\ ElementsReferring(a) = {1}

\* ------------------------------------------------------------ logging claims
\* The Status the client's last operation returned.
LastStatus ==
    CASE lg.client = "alloc" -> mlast.status
      [] lg.client = "shared" -> slast.status
      [] lg.client = "array" -> alast.status
      [] OTHER -> SUCCESS

\* The Logger objects constructed and not deleted.
ActiveSinks == {i \in SinkId : i <= lg.made /\ lg.deleted[i] = 0}

====
